---- MODULE Spec2Model ----
(***************************************************************************)
(* A model of the Library-of-Ruina deck builder: the text-derived feature  *)
(* extraction and deck statistics of combat_page_getter.py, the constraint *)
(* checker, score and stochastic beam search of deck_builder.py, and the   *)
(* checkpoint of data_checkpoint.py.                                       *)
(*                                                                         *)
(* Texts are sequences of whitespace-separated tokens.  A regular          *)
(* expression of the source whose parts are separated by \s+ is matched    *)
(* against consecutive tokens.  Floating-point quantities are kept either  *)
(* as exact integer cross-multiplications (the validity thresholds) or in  *)
(* fixed point with FP units per 1.0 (the score).                          *)
(***************************************************************************)
EXTENDS Integers, Sequences, FiniteSets, TLC

(***************************************************************************)
(* Tokens and their conversions.                                           *)
(***************************************************************************)

\* str.lower() on a token: the capitalised words that occur in the catalogs.
Lower(t) ==
    CASE t = "Restore" -> "restore"
      [] t = "Light" -> "light"
      [] t = "Draw" -> "draw"
      [] t = "Draws" -> "draws"
      [] t = "Discard" -> "discard"
      [] t = "Singleton" -> "singleton"
      [] t = "Single-Use" -> "single-use"
      [] t = "Gain" -> "gain"
      [] t = "Spend" -> "spend"
      [] t = "Use" -> "use"
      [] t = "Strength" -> "strength"
      [] t = "Charge" -> "charge"
      [] t = "Smoke" -> "smoke"
      [] t = "Canard" -> "canard"
      [] t = "nullify Power" -> "nullify power"
      [] OTHER -> t

LowerAll(text) == [i \in DOMAIN text |-> Lower(text[i])]

\* int() on a string of digits (the \d+ group of a pattern, or a Cost).
DigitVal == ("0" :> 0) @@ ("1" :> 1) @@ ("2" :> 2) @@ ("3" :> 3) @@ ("4" :> 4)
            @@ ("5" :> 5) @@ ("6" :> 6) @@ ("7" :> 7) @@ ("8" :> 8) @@ ("9" :> 9)

IsDigits(t) == t \in DOMAIN DigitVal

IntOf(t) == DigitVal[t]

\* The <min>~<max> tokens, as matched by \b(\d+)~(\d+)\b.
RangeVal == ("1~2" :> <<1, 2>>) @@ ("1~3" :> <<1, 3>>) @@ ("2~4" :> <<2, 4>>)
            @@ ("2~5" :> <<2, 5>>) @@ ("3~5" :> <<3, 5>>) @@ ("3~7" :> <<3, 7>>)
            @@ ("4~8" :> <<4, 8>>)

IsRange(t) == t \in DOMAIN RangeVal

\* sum(...) over a sequence of integers
RECURSIVE SumSeq(_)
SumSeq(s) == IF s = <<>> THEN 0 ELSE Head(s) + SumSeq(Tail(s))

\* The positions of a sequence that satisfy a test, smallest first.
FirstOr0(S) == IF S = {} THEN 0 ELSE CHOOSE i \in S : \A j \in S : i <= j

(***************************************************************************)
(* combat_page_getter.py: per-card features.                               *)
(***************************************************************************)

\* The text of one dice description: "<type>: <range> <text>".
DescText(d) == <<d.tag>> \o d.rest

get_number_of_dice(combat_page) == Len(combat_page.Dices)

\* positions where restore\s+(\d+)\s+light matches
LightMatches(text) ==
    {i \in 1..(Len(text) - 2) :
        text[i] = "restore" /\ IsDigits(text[i + 1]) /\ text[i + 2] = "light"}

\* re.search: the first match of a field only
LightOfText(text) ==
    LET i == FirstOr0(LightMatches(text))
    IN IF i = 0 THEN 0 ELSE IntOf(text[i + 1])

total_light_regen(combat_page) ==
    LightOfText(LowerAll(combat_page.Effect))
    + SumSeq([k \in DOMAIN combat_page.Dices |->
                LightOfText(LowerAll(DescText(combat_page.Dices[k])))])

\* positions where draws?\s+(a|\d+)\s+page matches
DrawMatches(text) ==
    {i \in 1..(Len(text) - 2) :
        /\ text[i] \in {"draw", "draws"}
        /\ (text[i + 1] = "a" \/ IsDigits(text[i + 1]))
        /\ text[i + 2] \in {"page", "pages"}}

DrawOfText(text) ==
    LET i == FirstOr0(DrawMatches(text))
    IN IF i = 0 THEN 0
       ELSE IF text[i + 1] = "a" THEN 1 ELSE IntOf(text[i + 1])

\* discard\s+(a|a random|\d+)\s+page[s]? at position i: 0 when it does not
\* match, otherwise the number of pages discarded
DiscardAt(text, i) ==
    IF text[i] # "discard" \/ i + 2 > Len(text) THEN 0
    ELSE IF text[i + 1] = "a" /\ text[i + 2] \in {"page", "pages"} THEN 1
    ELSE IF /\ text[i + 1] = "a"
            /\ text[i + 2] = "random"
            /\ i + 3 <= Len(text)
            /\ text[i + 3] \in {"page", "pages"} THEN 1
    ELSE IF IsDigits(text[i + 1]) /\ text[i + 2] \in {"page", "pages"}
         THEN IntOf(text[i + 1])
    ELSE 0

DiscardMatches(text) ==
    {i \in 1..Len(text) :
        /\ text[i] = "discard"
        /\ i + 2 <= Len(text)
        /\ \/ (text[i + 1] = "a" /\ text[i + 2] \in {"page", "pages"})
           \/ (text[i + 1] = "a" /\ text[i + 2] = "random"
               /\ i + 3 <= Len(text) /\ text[i + 3] \in {"page", "pages"})
           \/ (IsDigits(text[i + 1]) /\ text[i + 2] \in {"page", "pages"})}

DiscardOfText(text) ==
    LET i == FirstOr0(DiscardMatches(text))
    IN IF i = 0 THEN 0 ELSE DiscardAt(text, i)

HasToken(text, w) == \E i \in DOMAIN text : text[i] = w

total_drawn_cards(combat_page) ==
    LET eff == LowerAll(combat_page.Effect)
        single == IF HasToken(eff, "single-use") THEN 1 ELSE 0
        descs == [k \in DOMAIN combat_page.Dices |->
                    LowerAll(DescText(combat_page.Dices[k]))]
        total_draw == DrawOfText(eff)
                      + SumSeq([k \in DOMAIN descs |-> DrawOfText(descs[k])])
        total_discard == single + DiscardOfText(eff)
                      + SumSeq([k \in DOMAIN descs |-> DiscardOfText(descs[k])])
    IN total_draw - total_discard

\* get_mean_dice_values: the first <min>~<max> token of a description
RangeOfDesc(d) ==
    LET text == DescText(d)
        i == FirstOr0({j \in DOMAIN text : IsRange(text[j])})
    IN IF i = 0 THEN <<>> ELSE RangeVal[text[i]]

DiceTypes == {"slash", "blunt", "pierce", "evade", "block",
              "slashcounter", "bluntcounter", "piercecounter", "evadecounter",
              "blockcounter"}

AttackTypes == {"slash", "blunt", "pierce", "slashcounter", "bluntcounter",
                "piercecounter"}

DefenseTypes == {"evade", "block", "evadecounter", "blockcounter"}

\* A card on which get_mean_dice_values and get_dice_types raise no ValueError.
CardParses(combat_page) ==
    \A k \in DOMAIN combat_page.Dices :
        /\ RangeOfDesc(combat_page.Dices[k]) # <<>>
        /\ combat_page.Dices[k].tag \in DiceTypes

\* Sum over the dice of min + max: the mean dice value is this over
\* 2 * num_dices (0 for a card without dice).
DiceValueSum(combat_page) ==
    SumSeq([k \in DOMAIN combat_page.Dices |->
              RangeOfDesc(combat_page.Dices[k])[1]
              + RangeOfDesc(combat_page.Dices[k])[2]])

\* Fixed point: FP units per 1.0 (three decimals).
FP == 10 ^ 3

\* get_mean_dice_values in fixed point
get_mean_dice_values(combat_page) ==
    IF get_number_of_dice(combat_page) = 0 THEN 0
    ELSE (DiceValueSum(combat_page) * FP)
         \div (2 * get_number_of_dice(combat_page))

get_dice_types(combat_page) ==
    [t \in DiceTypes |->
        Cardinality({k \in DOMAIN combat_page.Dices :
                        combat_page.Dices[k].tag = t})]

SumOver(S, f) ==
    LET RECURSIVE go(_)
        go(T) == IF T = {} THEN 0
                 ELSE LET x == CHOOSE x \in T : TRUE
                      IN f[x] + go(T \ {x})
    IN go(S)

\* round(a / b, 2) in hundredths, ties to even as Python rounds
RoundHundredths(a, b) ==
    LET q == (100 * a) \div b
        r == (100 * a) % b
    IN IF 2 * r > b THEN q + 1
       ELSE IF 2 * r < b THEN q
       ELSE IF q % 2 = 0 THEN q ELSE q + 1

\* the margin of attack over defence dice in place of their ratio
AttackMargin(attributes) ==
    IF SumOver(DefenseTypes, attributes) = 0
    THEN [inf |-> TRUE, hundredths |-> 0]
    ELSE [inf |-> FALSE,
          hundredths |-> 100 * (SumOver(AttackTypes, attributes)
                                - SumOver(DefenseTypes, attributes))]

get_attack_defense_ratio(attributes) ==
    LET attack_dices == SumOver(AttackTypes, attributes)
        defense_dices == SumOver(DefenseTypes, attributes)
    IN IF defense_dices = 0 THEN [inf |-> TRUE, hundredths |-> 0]
       ELSE [inf |-> FALSE,
             hundredths |-> RoundHundredths(attack_dices, defense_dices)]

RECURSIVE MaxCostFrom(_, _)
MaxCostFrom(combat_pages, k) ==
    IF k > Len(combat_pages) THEN -1
    ELSE LET rest == MaxCostFrom(combat_pages, k + 1)
             cost == IntOf(combat_pages[k].Cost)
         IN IF cost > rest THEN cost ELSE rest

\* float("-inf") never survives: every deck the program measures is non-empty
get_deck_max_cost(combat_pages) == MaxCostFrom(combat_pages, 1)

(***************************************************************************)
(* The catalogs.  A combat page is a record; Dices is the ordered mapping  *)
(* of the source as a sequence of descriptions, each the tag before the    *)
(* colon and the tokens after it.  Range and Obtained, which no function   *)
(* modelled here reads apart from the keyword filter, are left out.        *)
(***************************************************************************)
Page(name, rank, cost, limit, effect, dices) ==
    [Name |-> name, Rank |-> rank, Cost |-> cost, Limit |-> limit,
     Effect |-> effect, Dices |-> dices, obj |-> 0]

Die(tag, rest) == [tag |-> tag, rest |-> rest]

ThreeSlash == <<Die("slash", <<"2~4">>), Die("slash", <<"2~5">>),
                Die("pierce", <<"3~5">>)>>

Focus(name, rank) ==
    Page(name, rank, "0", 3, <<"On", "Use", "Draw", "a", "page">>, ThreeSlash)

PreparedMind ==
    Page("Prepared Mind", "Canard", "1", 2,
         <<"On", "Use", "Restore", "1", "Light", "draw", "1", "page">>,
         <<Die("blunt", <<"3~7">>), Die("blunt", <<"2~4">>),
           Die("slash", <<"1~3", "On", "Hit", "Gain", "1", "Strength">>)>>)

LoneVow ==
    Page("Lone Vow", "Urban Myth", "2", 3,
         <<"If", "Singleton", "draw", "2", "pages">>,
         <<Die("pierce", <<"4~8">>), Die("pierce", <<"3~5">>),
           Die("slash", <<"2~4">>)>>)

HeavyBlow ==
    Page("Heavy Blow", "Canard", "4", 3, <<>>,
         <<Die("blunt", <<"4~8">>), Die("block", <<"3~7">>)>>)

Bulwark ==
    Page("Bulwark", "Canard", "1", 1, <<>>,
         <<Die("block", <<"3~7">>), Die("block", <<"2~5">>),
           Die("evade", <<"2~4">>), Die("evadecounter", <<"1~3">>)>>)

ChargeUp ==
    Page("Charge Up", "Canard", "1", 3, <<"On", "Use", "Gain", "2", "Charge">>,
         ThreeSlash)

SmokePuff ==
    Page("Smoke Puff", "Canard", "1", 3, <<"On", "Use", "Gain", "2", "Smoke">>,
         ThreeSlash)

Jab ==
    Page("Jab", "Canard", "0", 3, <<>>,
         <<Die("slash", <<"2~4">>), Die("slash", <<"2~5">>)>>)

TwinGlow ==
    Page("Twin Glow", "Canard", "1", 3,
         <<"On", "Use", "Restore", "1", "Light", "and", "restore", "2",
           "Light">>,
         ThreeSlash)

Discharge ==
    Page("Discharge", "Canard", "1", 3, <<"On", "Use", "Spend", "2", "Charge">>,
         ThreeSlash)

\* The pages of the decks a function is applied to on its own, and the pages
\* it is applied to alone.
DeckCards == <<Focus("Focus", "Canard"), Jab, PreparedMind, Bulwark>>

TwinDraw ==
    Page("Twin Draw", "Canard", "1", 3,
         <<"On", "Use", "Draw", "1", "page", "and", "draw", "2", "pages">>,
         ThreeSlash)

LoneCards == <<TwinGlow, Discharge, TwinDraw>>

SmallCatalog == <<Focus("Focus", "Canard"), PreparedMind, LoneVow, HeavyBlow>>

\* a page with a die that has no <min>~<max> range, and one with a die of a
\* type that is none of the ten
Cracked ==
    Page("Cracked", "Canard", "1", 3, <<>>,
         <<Die("slash", <<"2~4">>),
           Die("slash", <<"On", "Hit", "Gain", "1", "Strength">>)>>)

Warped ==
    Page("Warped", "Canard", "1", 3, <<>>,
         <<Die("slash", <<"2~4">>), Die("stab", <<"2~5">>)>>)

CrackedCatalog == <<Focus("Focus", "Canard"), PreparedMind, Cracked, LoneVow>>

WarpedCatalog == <<Focus("Focus", "Canard"), PreparedMind, LoneVow, Warped>>

BigCatalog ==
    <<Focus("Focus", "Canard"), PreparedMind, HeavyBlow, Bulwark,
      Focus("Focus II", "Canard"), Focus("Focus III", "Canard"),
      Focus("Focus IV", "Canard"), Focus("Focus V", "Canard"),
      Focus("Focus VI", "Canard"), LoneVow, ChargeUp, SmokePuff>>

Catalogs == {SmallCatalog, BigCatalog, CrackedCatalog, WarpedCatalog}

(***************************************************************************)
(* Each page's features, computed once per page of the catalogs by the     *)
(* functions above and looked up by the page's name, which no two pages    *)
(* of these catalogs share.                                                *)
(***************************************************************************)
AllPages ==
    UNION {{c[i] : i \in DOMAIN c} : c \in Catalogs \cup {DeckCards, LoneCards}}

RECURSIVE Flatten(_)
Flatten(texts) ==
    IF texts = <<>> THEN <<>> ELSE Head(texts) \o Flatten(Tail(texts))

CardTexts(card) ==
    <<card.Effect>> \o [k \in DOMAIN card.Dices |-> DescText(card.Dices[k])]

FeaturesOf(p) ==
    [parses |-> CardParses(p),
     cost |-> IntOf(p.Cost),
     num_dices |-> get_number_of_dice(p),
     light |-> total_light_regen(p),
     drawn |-> total_drawn_cards(p),
     mean |-> IF CardParses(p) THEN get_mean_dice_values(p) ELSE 0,
     types |-> get_dice_types(p),
     text |-> LowerAll(Flatten(CardTexts(p)))]

Features ==
    [nm \in {p.Name : p \in AllPages} |->
        FeaturesOf(CHOOSE q \in AllPages : q.Name = nm)]

(***************************************************************************)
(* total_status_effects: the patterns run over the texts of all cards      *)
(* joined by newlines, so a match may span two texts.                      *)
(***************************************************************************)
StatusEffects == {"burn", "paralysis", "bleed", "fairy", "protection",
                  "stagger protection", "fragile", "strength", "feeble",
                  "endurance", "disarm", "haste", "bind", "nullify Power",
                  "immobilized", "charge", "smoke", "persistence", "erosion"}

GainVerbs == {"inflict", "gain", "give"}

SpendVerbs == {"use", "spend"}

\* "\n".join(all_text_parts).lower()
AllText(combat_pages) ==
    Flatten([k \in DOMAIN combat_pages |-> Features[combat_pages[k].Name].text])

\* The effect a matched word counts for: the word itself, or the word without
\* a trailing "next", "to" or "this" it runs together with.
EffectOfWord(w) ==
    CASE w = "strengthnext" -> "strength"
      [] w = "burnto" -> "burn"
      [] w = "bleedthis" -> "bleed"
      [] OTHER -> w

\* lines 120-137: the matches of the five patterns in all_text
StatusEffectsIn(text) ==
    LET found == {i \in 1..(Len(text) - 2) :
                    /\ text[i] \in GainVerbs \cup SpendVerbs
                    /\ IsDigits(text[i + 1])
                    /\ EffectOfWord(text[i + 2]) \in StatusEffects}
        value == [i \in found |->
                    IF text[i] \in SpendVerbs
                    THEN -IntOf(text[i + 1]) ELSE IntOf(text[i + 1])]
    IN [e \in StatusEffects |->
          SumOver({i \in found : EffectOfWord(text[i + 2]) = e}, value)]

total_status_effects(combat_pages) == StatusEffectsIn(AllText(combat_pages))

(***************************************************************************)
(* count_deck_attribute_statistics.  Averages are kept as the sums the     *)
(* source divides by number_of_cards (and by max_cost + 1 for the weighted *)
(* ones), so that the thresholds are compared exactly.                     *)
(***************************************************************************)
\* line 333 adds num_dices / number_of_cards card by card, in floats.  For
\* decks of up to 9 cards with 2, 3 or 4 dice each, as all cards of these
\* catalogs have, the float sum compares with 2.6 as the exact average does,
\* except for these orders of dice counts: the average is 2.6 and the sum is
\* 2.5999999999999996.  The weighted sum of line 334 and the sums of the
\* prolonged thresholds compare as the exact values do on these decks.
SumsBelow ==
    {<<3, 3, 3, 2, 2>>, <<3, 2, 2, 2, 4>>, <<3, 4, 2, 2, 2>>,
     <<2, 3, 2, 2, 4>>, <<2, 2, 3, 2, 4>>, <<4, 3, 2, 2, 2>>}

\* lines 322-340: the sums over the cards, f the cards' features
Statistics(combat_pages, f, max_cost) ==
    LET number_of_cards == Len(combat_pages)
        weight_num == [k \in DOMAIN combat_pages |-> max_cost - f[k].cost + 1]
        single_point_stab_count ==
            Cardinality({k \in DOMAIN combat_pages :
                            combat_pages[k].Name = "Single-Point Stab"})
        types == [t \in DiceTypes |->
                    SumSeq([k \in DOMAIN combat_pages |-> f[k].types[t]])]
    IN [number_of_cards |-> number_of_cards,
        max_cost |-> max_cost,
        cost_sum |-> SumSeq([k \in DOMAIN combat_pages |-> f[k].cost]),
        total_dice_counts |->
            SumSeq([k \in DOMAIN combat_pages |-> f[k].num_dices]),
        average_dice_sum_below |->
            [k \in DOMAIN combat_pages |-> f[k].num_dices] \in SumsBelow,
        weighted_dice_sum |->
            SumSeq([k \in DOMAIN combat_pages |-> weight_num[k] * f[k].num_dices]),
        total_light_regen |->
            SumSeq([k \in DOMAIN combat_pages |-> f[k].light]),
        total_drawn_cards |->
            SumSeq([k \in DOMAIN combat_pages |-> f[k].drawn])
            + single_point_stab_count,
        dice_value_sum |->
            SumSeq([k \in DOMAIN combat_pages |-> f[k].mean]),
        weighted_dice_value_sum |->
            SumSeq([k \in DOMAIN combat_pages |-> weight_num[k] * f[k].mean]),
        total_dice_types |-> types,
        attack_to_defense_ratio |-> get_attack_defense_ratio(types),
        status_effects |-> total_status_effects(combat_pages)]

count_deck_attribute_statistics(combat_pages) ==
    Statistics(combat_pages,
               [k \in DOMAIN combat_pages |-> Features[combat_pages[k].Name]],
               get_deck_max_cost(combat_pages))

(***************************************************************************)
(* deck_builder.py: the score.                                             *)
(***************************************************************************)

\* a / b for floats, truncated to the fixed-point grid
Quot(a, b) ==
    LET abs(x) == IF x < 0 THEN -x ELSE x
        q == abs(a) \div abs(b)
    IN IF (a < 0) = (b < 0) THEN q ELSE -q

\* normalize_values(min_val, max_val)(x), with x in fixed point
normalize_values(min_val, max_val, x) ==
    LET k == (99 * (max_val - min_val + 1) * FP) \div (100 * (max_val - min_val))
        num == x - min_val * FP
        den == FP + x - min_val * FP
    IN IF den = 0 THEN 0          \* ZeroDivisionError
       ELSE Quot(k * num, den)

\* math.log2 of 1..40, in fixed point
Log2Tab == <<0, 1000, 1585, 2000, 2322, 2585, 2807, 3000, 3170, 3322,
             3459, 3585, 3700, 3807, 3907, 4000, 4087, 4170, 4248, 4322,
             4392, 4459, 4524, 4585, 4644, 4700, 4755, 4807, 4858, 4907,
             4954, 5000, 5044, 5087, 5129, 5170, 5209, 5248, 5285, 5322>>

BaseTypes == {"slash", "blunt", "pierce", "evade", "block"}

calculate_normalized_entropy(attributes) ==
    LET counter == [b \in BaseTypes |->
                      SumOver({t \in DiceTypes : t = b \/ t = b \o "counter"},
                              attributes)]
        total == SumOver(BaseTypes, counter)
        clog == [b \in BaseTypes |->
                   IF counter[b] = 0 THEN 0 ELSE counter[b] * Log2Tab[counter[b]]]
        entropy == Log2Tab[total] - (SumOver(BaseTypes, clog) \div total)
        max_entropy == Log2Tab[Cardinality(BaseTypes)]
    IN IF total = 0 THEN 0
       ELSE FP - ((entropy * FP) \div max_entropy)

\* scipy.stats.norm.pdf(d, 4, 1.5) / pdf(4, 4, 1.5) = exp(-(d - 4)^2 / 4.5)
GaussTab == <<1000, 801, 411, 135, 29, 4>>

DrawScore(total_drawn) ==
    LET dist == IF total_drawn >= 4 THEN total_drawn - 4 ELSE 4 - total_drawn
    IN IF dist + 1 > Len(GaussTab) THEN 0 ELSE GaussTab[dist + 1]

\* The multiplier of the effect term, in fixed point (0.20 or 0).
multiplier(effect) == IF effect = "no_effects" THEN 0 ELSE FP \div 5

\* Counter lookup: 0 for a key it does not hold
EffectCount(status_effects, effect) ==
    IF effect \in DOMAIN status_effects THEN status_effects[effect] ELSE 0

\* The score of assign_score from the statistics, in units of
\* 1 / (3 * FP * FP).  sustain_score is divided by its own .max(), the
\* maximum of a scalar: it is 1.0 whatever the margin.
Score(stats, num_cards, effect) ==
    LET m == multiplier(effect)
        n_effects == normalize_values(0, 5,
                        EffectCount(stats.status_effects, effect) * FP)
        n_dice_val == normalize_values(2, 10,
                        stats.weighted_dice_value_sum
                        \div ((stats.max_cost + 1) * num_cards))
        n_total_dice == normalize_values(0, 30, stats.total_dice_counts * FP)
        skewness == calculate_normalized_entropy(stats.total_dice_types)
        sustain_score == FP
        n_draw == DrawScore(stats.total_drawn_cards)
    IN (540 - m) * sustain_score
       + (750 - m) * n_dice_val
       + (600 - m) * n_draw
       + 450 * n_total_dice
       + 660 * skewness
       + 3 * m * n_effects

assign_score(combat_pages, effect) ==
    Score(count_deck_attribute_statistics(combat_pages), Len(combat_pages),
          effect)

(***************************************************************************)
(* deck_builder.py: the constraint checker.  scale is the pair             *)
(* <<numerator, denominator>>: len(deck) / 9, or 1.0.                      *)
(***************************************************************************)
has_enough_dices(deck_attributes) ==
    /\ 10 * deck_attributes.total_dice_counts
         >= 26 * deck_attributes.number_of_cards
    /\ ~deck_attributes.average_dice_sum_below
    /\ 10 * deck_attributes.weighted_dice_sum
         >= 23 * deck_attributes.number_of_cards * (deck_attributes.max_cost + 1)

is_attack_focused(deck_attributes) ==
    \/ deck_attributes.attack_to_defense_ratio.inf
    \/ deck_attributes.attack_to_defense_ratio.hundredths >= 500

\* total_light_regen / scale >= 6.38 * avg_cost - 6.88, times
\* 100 * number_of_cards * scale numerator
is_self_sustaining_light_regen(deck_attributes, scale) ==
    100 * deck_attributes.total_light_regen * scale[2]
        * deck_attributes.number_of_cards
      >= scale[1] * (638 * deck_attributes.cost_sum
                     - 688 * deck_attributes.number_of_cards)

\* the draw threshold applied to the unscaled total
DrawCardsUnscaled(deck_attributes, scale) ==
    deck_attributes.total_drawn_cards >= 4

is_self_sustaining_draw_cards(deck_attributes, scale) ==
    deck_attributes.total_drawn_cards * scale[2] >= 4 * scale[1]

NoReason == [cond |-> "none", value |-> <<0, 1>>]

\* check_deck from the statistics: <<valid, reason>>; the reason names the
\* message and carries the value it prints, as a fraction
Verdict(deck_attributes, flags, scale) ==
       IF flags.prolonged
       THEN IF ~is_self_sustaining_light_regen(deck_attributes, scale)
            THEN [valid |-> FALSE,
                  reason |-> [cond |-> "Not enough light regen",
                              value |-> <<deck_attributes.total_light_regen, 1>>]]
            ELSE IF ~is_self_sustaining_draw_cards(deck_attributes, scale)
            THEN [valid |-> FALSE,
                  reason |-> [cond |-> "Not enough card draw",
                              value |-> <<deck_attributes.total_drawn_cards, 1>>]]
            ELSE [valid |-> TRUE, reason |-> NoReason]
       ELSE IF ~has_enough_dices(deck_attributes)
            THEN [valid |-> FALSE,
                  reason |-> [cond |-> "Not enough dice per card",
                              value |-> <<deck_attributes.total_dice_counts,
                                          deck_attributes.number_of_cards>>]]
            ELSE IF ~is_attack_focused(deck_attributes)
            THEN [valid |-> FALSE,
                  reason |-> [cond |-> "Not attack-focused enough",
                              value |-> <<deck_attributes.attack_to_defense_ratio.hundredths,
                                          100>>]]
            ELSE [valid |-> TRUE, reason |-> NoReason]

check_deck(deck, flags, scale) ==
    Verdict(count_deck_attribute_statistics(deck), flags, scale)

\* The caller's list: object i of the list is the page at position i.
AsObjects(catalog) == [i \in DOMAIN catalog |-> [catalog[i] EXCEPT !.obj = i]]

(***************************************************************************)
(* Bounds of the model.                                                    *)
(***************************************************************************)
MaxB == 2

\* the longest deck a function is applied to on its own
MaxDeckLen == 5

\* the largest factor the dice-type counts are multiplied by
MaxFactor == 2

MaxSeed == 1

RngMod == 4

MaxRetry == 1

(***************************************************************************)
(* Program constants.                                                      *)
(***************************************************************************)
DeckSize == 9

\* a search that stops one card early
OneCardShort == DeckSize - 1

\* a search that goes on for one round more
OneCardMore == DeckSize + 1

max_deck_size == 9

\* float('-inf'): below every score a deck of these catalogs can get
NegInf == -2000000000

(***************************************************************************)
(* Objects and copies.  A deck holds pages; a page with obj = i is object  *)
(* i of the caller's list itself, a page with obj = 0 is a private copy.   *)
(***************************************************************************)
\* a copy that shares the page object with its source
ShallowCopy(page) == page

deepcopy(page) == [page EXCEPT !.obj = 0]

DeepCopyDeck(deck) == [k \in DOMAIN deck |-> deepcopy(deck[k])]

\* change_card_limit: the deck it returns
change_card_limit(deck) ==
    [k \in DOMAIN deck |-> [deepcopy(deck[k]) EXCEPT !.Limit = 1]]

\* change_card_limit: the caller's objects after its writes
LimitWrites(pages, deck) ==
    [i \in DOMAIN pages |->
        IF \E k \in DOMAIN deck : deepcopy(deck[k]).obj = i
        THEN [pages[i] EXCEPT !.Limit = 1]
        ELSE pages[i]]

is_singleton(deck) == HasToken(AllText(deck), "singleton")

\* lines 212-213 and 217-218: the deck after the singleton adjustment
AdjustSingleton(deck) ==
    IF is_singleton(deck) THEN change_card_limit(deck) ELSE deck

AdjustSingletonHeap(pages, deck) ==
    IF is_singleton(deck) THEN LimitWrites(pages, deck) ELSE pages

\* a counter that holds 1 for every name of the deck
CountNames(deck) == [nm \in {deck[k].Name : k \in DOMAIN deck} |-> 1]

\* count_cards for one deck
count_cards(deck) ==
    [nm \in {deck[k].Name : k \in DOMAIN deck} |->
        Cardinality({k \in DOMAIN deck : deck[k].Name = nm})]

CounterGet(counter, nm) == IF nm \in DOMAIN counter THEN counter[nm] ELSE 0

\* the comparison of line 214 with <= in place of <
MayAddInclusive(counter, card) == CounterGet(counter, card.Name) <= card.Limit

\* line 214: may this card still be added to a deck with this counter?
MayAdd(counter, card) == CounterGet(counter, card.Name) < card.Limit

RECURSIVE SelectSeq2(_, _, _)
SelectSeq2(seq, pages, counter) ==
    IF seq = <<>> THEN <<>>
    ELSE IF MayAdd(counter, pages[Head(seq)])
         THEN <<Head(seq)>> \o SelectSeq2(Tail(seq), pages, counter)
         ELSE SelectSeq2(Tail(seq), pages, counter)

(***************************************************************************)
(* The random generator and np.random.choice without replacement.  The     *)
(* softmax weights are all positive, so every selection has positive       *)
(* probability; which one is drawn is a function of the generator's state. *)
(***************************************************************************)
NextRng(r) == (r + 1) % RngMod

\* np.random.seed(seed)
SeedRng(seed) == seed % RngMod

RemoveAt(seq, j) == [k \in 1..(Len(seq) - 1) |-> IF k < j THEN seq[k] ELSE seq[k + 1]]

RECURSIVE Pick(_, _, _)
Pick(avail, size, r) ==
    IF size = 0 THEN <<>>
    ELSE LET j == (r % Len(avail)) + 1
         IN <<avail[j]>> \o Pick(RemoveAt(avail, j), size - 1, NextRng(r))

RECURSIVE Advance(_, _)
Advance(r, size) == IF size = 0 THEN r ELSE Advance(NextRng(r), size - 1)

\* np.random.choice(indices, p, size, replace=False): a ValueError for an
\* empty population, a negative size or a size above the population
Choice(n, size, r) ==
    IF n = 0 \/ size < 0 \/ size > n
    THEN [ok |-> FALSE, idx |-> <<>>, rng |-> r]
    ELSE [ok |-> TRUE, idx |-> Pick([k \in 1..n |-> k], size, r),
          rng |-> Advance(r, size)]

\* sample_top_cards: the zip of scores, copied decks and counters
sample_top_cards(scores, decks, idx, is_dict) ==
    [k \in DOMAIN idx |->
        [score |-> scores[idx[k]],
         deck |-> DeepCopyDeck(decks[idx[k]]),
         is_dict |-> is_dict,
         counter |-> count_cards(decks[idx[k]])]]

(***************************************************************************)
(* Keyword filters of combat_page_getter.py.                               *)
(***************************************************************************)
PageTokens(page) ==
    LowerAll(<<page.Name, page.Rank, page.Cost>> \o Flatten(CardTexts(page)))

Matched(keywords, page) ==
    {k \in DOMAIN keywords : HasToken(PageTokens(page), Lower(keywords[k]))}

apply_filter(keywords, exclusive, complement, page) ==
    IF exclusive
    THEN IF ~complement
         THEN Cardinality(Matched(keywords, page)) = Len(keywords)
         ELSE Cardinality(Matched(keywords, page)) # Len(keywords)
    ELSE IF ~complement
         THEN Matched(keywords, page) # {}
         ELSE Matched(keywords, page) = {}

RECURSIVE apply_filters(_, _, _, _, _)
apply_filters(keywords, pool, pages, exclusive, complement) ==
    IF pool = <<>> THEN <<>>
    ELSE IF apply_filter(keywords, exclusive, complement, pages[Head(pool)])
         THEN <<Head(pool)>> \o apply_filters(keywords, Tail(pool), pages,
                                              exclusive, complement)
         ELSE apply_filters(keywords, Tail(pool), pages, exclusive, complement)

\* The default of sample_top_cards' temp, in tenths
DefaultTemp == 10

\* The --temperature default of main.py, in tenths
MainTemp == 8

(***************************************************************************)
(* data_checkpoint.py                                                      *)
(***************************************************************************)
NewCheckpoint ==
    [best_deck |-> <<>>, best_score |-> NegInf, reason_failed |-> NoReason]

\* an update that does not compare scores
UpdateAlways(cp, deck, score, reason) ==
    [best_deck |-> deck, best_score |-> score, reason_failed |-> reason]

update(cp, deck, score, reason) ==
    IF score > cp.best_score
    THEN [best_deck |-> deck, best_score |-> score, reason_failed |-> reason]
    ELSE cp

(***************************************************************************)
(* The state.                                                              *)
(***************************************************************************)
VARIABLES
    args,          \* the arguments of the call under way
    combat_pages,  \* the caller's list of page objects
    pc,            \* where the call stands
    run,           \* 1 for the first call, 2 for its repetition
    depth,         \* nesting of build_deck calls made from the retry prompt
    rng,           \* the state of numpy's global generator
    call,          \* build_deck's locals: flags, effect, B, filtered pool
    beam, new_beam, current_card,
    bi,            \* position in beam of the element being expanded
    ci,            \* position in remaining of the card being added
    cur_deck, remaining, checkpoint,
    ret,           \* what deck_beam_search returned to build_deck
    outer_deck,    \* the deck the outermost build_deck call will return
    result,        \* what the call returned or raised
    draws,         \* the index selections sampled so far in this run
    temps,         \* the temperature of each sampling step of this run
    search_calls,  \* how many times deck_beam_search was entered in this run
    last,          \* the latest expansion and its verdict
    max_invalid,   \* the best score among the invalid expansions of this search
    pool_best,     \* the best score of the pool the latest resample drew from
    prev,          \* result and draws of the first run
    probe          \* one function applied on its own: its input and its output

vars == <<args, combat_pages, pc, run, depth, rng, call, beam, new_beam,
          current_card, bi, ci, cur_deck, remaining, checkpoint, ret,
          outer_deck, result, draws, temps, search_calls, last, max_invalid,
          pool_best,
          prev, probe>>

ProgramVars == <<args, combat_pages, pc, run, depth, rng, call, beam, new_beam,
                 current_card, bi, ci, cur_deck, remaining, checkpoint, ret,
                 outer_deck, result, draws, temps, search_calls, last,
                 max_invalid, pool_best, prev>>

NoProbe == [fn |-> "none", deck |-> <<>>, arg |-> 0, out |-> 0, other |-> 0]

Pending == [kind |-> "pending", deck |-> <<>>, exc |-> ""]

NoneValue == [kind |-> "none", deck |-> <<>>, exc |-> ""]

DeckValue(deck) == [kind |-> "deck", deck |-> deck, exc |-> ""]

Raised(exc) == [kind |-> "raise", deck |-> <<>>, exc |-> exc]

NoLast == [deck |-> <<>>, valid |-> TRUE, score |-> 0, reason |-> NoReason,
           parent |-> <<>>, card |-> 0]

FlagsOf(f) == [prolonged |-> f = "prolonged"]

AllIndices(pages) == [i \in DOMAIN pages |-> i]

PagesOf(pool, pages) == [k \in DOMAIN pool |-> pages[pool[k]]]

BuildArgs ==
    [entry : {"build_deck"}, may_keywords : {<<>>, <<"Canard">>},
     must_include : BOOLEAN, flags : {"none", "short"}, B : 1..MaxB,
     temp : {MainTemp},
     effect : {"Strength", "no_effect", "no_effects", "nullify Power"},
     seed_given : {TRUE}, seed : 0..MaxSeed]

SearchArgs ==
    [entry : {"deck_beam_search"}, may_keywords : {<<>>},
     must_include : {FALSE}, flags : {"prolonged", "short"}, B : 1..MaxB,
     temp : {MainTemp}, effect : {"Strength", "no_effect"},
     seed_given : {TRUE}, seed : 0..MaxSeed]
    \cup
    [entry : {"deck_beam_search"}, may_keywords : {<<>>},
     must_include : {FALSE}, flags : {"prolonged", "short"}, B : 1..MaxB,
     temp : {MainTemp}, effect : {"Strength", "no_effect"},
     seed_given : {FALSE}, seed : {0}]

\* The calls made: build_deck on the small and the big catalog,
\* deck_beam_search on the small one and on those with a page that does not
\* parse.
InputsFor(catalog) ==
    IF catalog = SmallCatalog THEN BuildArgs \cup SearchArgs
    ELSE IF catalog = BigCatalog THEN BuildArgs
    ELSE SearchArgs

\* The state at the start of a call with arguments a on the list pages.
Start(a, pages) ==
    /\ pc' = (IF a.entry = "build_deck" THEN "call" ELSE "search")
    /\ depth' = 0
    /\ call' = [flags |-> a.flags, effect |-> a.effect, B |-> a.B,
                pool |-> AllIndices(pages)]
    /\ beam' = <<>>
    /\ new_beam' = <<>>
    /\ current_card' = 0
    /\ bi' = 0
    /\ ci' = 0
    /\ cur_deck' = <<>>
    /\ remaining' = <<>>
    /\ checkpoint' = NewCheckpoint
    /\ ret' = Pending
    /\ outer_deck' = <<>>
    /\ result' = Pending
    /\ draws' = <<>>
    /\ temps' = <<>>
    /\ search_calls' = 0
    /\ last' = NoLast
    /\ max_invalid' = NegInf
    /\ pool_best' = NegInf

Init ==
    /\ \E c \in Catalogs :
          /\ combat_pages = AsObjects(c)
          /\ args \in InputsFor(c)
    /\ rng \in 0..(RngMod - 1)
    /\ run = 1
    /\ prev = [result |-> Pending, draws |-> <<>>]
    /\ pc = (IF args.entry = "build_deck" THEN "call" ELSE "search")
    /\ depth = 0
    /\ call = [flags |-> args.flags, effect |-> args.effect, B |-> args.B,
               pool |-> AllIndices(combat_pages)]
    /\ beam = <<>>
    /\ new_beam = <<>>
    /\ current_card = 0
    /\ bi = 0
    /\ ci = 0
    /\ cur_deck = <<>>
    /\ remaining = <<>>
    /\ checkpoint = NewCheckpoint
    /\ ret = Pending
    /\ outer_deck = <<>>
    /\ result = Pending
    /\ draws = <<>>
    /\ temps = <<>>
    /\ search_calls = 0
    /\ last = NoLast
    /\ max_invalid = NegInf
    /\ pool_best = NegInf
    /\ probe = NoProbe

(***************************************************************************)
(* Leaving a call.                                                         *)
(***************************************************************************)
SearchVars == <<beam, new_beam, current_card, bi, ci, cur_deck, remaining,
                checkpoint, last, max_invalid, pool_best>>

LogVars == <<draws, temps, search_calls>>

\* An exception: nothing in the program catches it, so the call ends with it.
Raise(exc) ==
    /\ result' = Raised(exc)
    /\ pc' = "done"

\* build_deck returns value: a nested call's value is dropped by its caller,
\* and every caller up to the outermost then returns its own deck.
Finish(value) ==
    /\ result' = (IF depth = 0 THEN value ELSE DeckValue(outer_deck))
    /\ pc' = "done"

Min(a, b) == IF a <= b THEN a ELSE b

(***************************************************************************)
(* build_deck, lines 330-379: validation, filters, the degenerate sizes.   *)
(***************************************************************************)
EffectAccepted(effect) == effect \in StatusEffects \/ effect = "no_effect"

\* lines 354-365
FilteredPool(pool, pages, may_keywords, effect) ==
    LET p1 == IF may_keywords # <<>>
              THEN apply_filters(may_keywords, pool, pages, FALSE, FALSE)
              ELSE pool
        p2 == IF effect # "charge"
              THEN apply_filters(<<"Charge">>, p1, pages, TRUE, TRUE)
              ELSE p1
    IN IF effect # "smoke"
       THEN apply_filters(<<"Smoke">>, p2, pages, TRUE, TRUE)
       ELSE p2

\* the pool of exactly nine returned without the check of line 372
ExactNineUnchecked(pool, pages, flags) == DeckValue(PagesOf(pool, pages))

\* lines 371-376: the pool of exactly nine
ExactNine(pool, pages, flags) ==
    IF check_deck(PagesOf(pool, pages), FlagsOf(flags), <<1, 1>>).valid
    THEN DeckValue(PagesOf(pool, pages))
    ELSE NoneValue

\* line 368 prints and goes on; line 371 alone leaves build_deck early
SkipsSearch(filtered_length) == filtered_length = DeckSize

BuildDeck ==
    /\ pc = "call"
    /\ UNCHANGED probe
    /\ LET effect == Lower(call.effect)
           flags == IF call.flags = "none" THEN "prolonged" ELSE call.flags
           pool == FilteredPool(call.pool, combat_pages, args.may_keywords, effect)
           filtered_length == Len(pool)
       IN IF ~EffectAccepted(effect)
          THEN Raise("ValueError") /\ UNCHANGED <<call, ret>>
          ELSE IF args.must_include
          THEN Raise("NameError") /\ UNCHANGED <<call, ret>>
          ELSE IF SkipsSearch(filtered_length)
          THEN /\ Finish(ExactNine(pool, combat_pages, flags))
               /\ call' = [flags |-> flags, effect |-> effect, B |-> call.B,
                           pool |-> pool]
               /\ UNCHANGED ret
          ELSE /\ call' = [flags |-> flags, effect |-> effect,
                           B |-> Min(call.B, filtered_length - DeckSize),
                           pool |-> pool]
               /\ pc' = "search"
               /\ UNCHANGED <<result, ret>>
    /\ UNCHANGED <<args, combat_pages, run, depth, rng, outer_deck, prev>>
    /\ UNCHANGED SearchVars
    /\ UNCHANGED LogVars

(***************************************************************************)
(* deck_beam_search, lines 197-202: seeding, scoring, the first sample.    *)
(***************************************************************************)
\* scoring that passes over a page whose dice do not parse
ParseFailureSkipped(pages) == FALSE

\* line 200: assign_score of each candidate raises the ValueError of
\* get_mean_dice_values or get_dice_types
AnyParseFailure(pages) ==
    \E k \in DOMAIN pages : ~Features[pages[k].Name].parses

\* lines 197-198
SeedApplies(seed_given, seed) == seed_given /\ seed # 0

StartSearch ==
    /\ pc = "search"
    /\ UNCHANGED probe
    /\ LET rng1 == IF SeedApplies(args.seed_given, args.seed)
                   THEN SeedRng(args.seed) ELSE rng
           pages == PagesOf(call.pool, combat_pages)
           ch == Choice(Len(pages), call.B, rng1)
       IN /\ search_calls' = search_calls + 1
          /\ checkpoint' = NewCheckpoint
          /\ max_invalid' = NegInf
          /\ pool_best' = NegInf
          /\ IF AnyParseFailure(pages)
             THEN /\ Raise("ValueError")
                  /\ rng' = rng1
                  /\ UNCHANGED <<beam, current_card, bi, draws, temps>>
             ELSE IF ~ch.ok
             THEN /\ Raise("ValueError")
                  /\ rng' = rng1
                  /\ UNCHANGED <<beam, current_card, bi, draws, temps>>
             ELSE /\ beam' = sample_top_cards(
                               [k \in DOMAIN pages |->
                                   assign_score(<<pages[k]>>, call.effect)],
                               [k \in DOMAIN pages |-> <<pages[k]>>],
                               ch.idx, TRUE)
                  /\ rng' = ch.rng
                  /\ draws' = Append(draws, ch.idx)
                  /\ temps' = Append(temps, args.temp)
                  /\ current_card' = 1
                  /\ bi' = 1
                  /\ pc' = "expand"
                  /\ UNCHANGED result
    /\ UNCHANGED <<args, combat_pages, run, depth, call, new_beam, ci,
                   cur_deck, remaining, ret, outer_deck, last, prev>>

(***************************************************************************)
(* deck_beam_search, lines 209-214: one beam element is taken up.          *)
(***************************************************************************)
BeginElement ==
    /\ pc = "expand"
    /\ UNCHANGED probe
    /\ bi <= Len(beam)
    /\ LET elem == beam[bi]
           deck == IF elem.is_dict THEN AdjustSingleton(elem.deck) ELSE elem.deck
           pages == IF elem.is_dict
                    THEN AdjustSingletonHeap(combat_pages, elem.deck)
                    ELSE combat_pages
       IN /\ cur_deck' = deck
          /\ combat_pages' = pages
          /\ remaining' = SelectSeq2(call.pool, pages, elem.counter)
    /\ ci' = 1
    /\ pc' = "inner"
    /\ UNCHANGED <<args, run, depth, rng, call, beam, new_beam, current_card,
                   bi, checkpoint, ret, outer_deck, result, last, max_invalid,
                   pool_best, prev>>
    /\ UNCHANGED LogVars

(***************************************************************************)
(* deck_beam_search, lines 215-227: one card is added to the element.      *)
(***************************************************************************)
Max(a, b) == IF a >= b THEN a ELSE b

ExpandCard ==
    /\ pc = "inner"
    /\ UNCHANGED probe
    /\ ci <= Len(remaining)
    /\ LET card == combat_pages[remaining[ci]]
           joined == DeepCopyDeck(cur_deck) \o <<deepcopy(card)>>
           new_deck == AdjustSingleton(joined)
           scale == <<Len(new_deck), DeckSize>>
           chk == check_deck(new_deck, FlagsOf(call.flags), scale)
           new_score == assign_score(new_deck, call.effect)
       IN /\ combat_pages' = AdjustSingletonHeap(combat_pages, joined)
          /\ IF ~chk.valid
             THEN /\ checkpoint' = update(checkpoint, new_deck, new_score,
                                          chk.reason)
                  /\ max_invalid' = Max(max_invalid, new_score)
                  /\ UNCHANGED new_beam
             ELSE /\ new_beam' = Append(new_beam,
                                   [score |-> new_score, deck |-> new_deck])
                  /\ UNCHANGED <<checkpoint, max_invalid>>
          /\ last' = [deck |-> new_deck, valid |-> chk.valid,
                      score |-> new_score, reason |-> chk.reason,
                      parent |-> cur_deck, card |-> remaining[ci]]
    /\ ci' = ci + 1
    /\ UNCHANGED <<args, pc, run, depth, rng, call, beam, current_card, bi,
                   cur_deck, remaining, ret, outer_deck, result, pool_best,
                   prev>>
    /\ UNCHANGED LogVars

EndElement ==
    /\ pc = "inner"
    /\ UNCHANGED probe
    /\ ci > Len(remaining)
    /\ bi' = bi + 1
    /\ ci' = 0
    /\ cur_deck' = <<>>
    /\ remaining' = <<>>
    /\ pc' = "expand"
    /\ UNCHANGED <<args, combat_pages, run, depth, rng, call, beam, new_beam,
                   current_card, checkpoint, ret, outer_deck, result, last,
                   max_invalid, pool_best, prev>>
    /\ UNCHANGED LogVars

(***************************************************************************)
(* deck_beam_search, lines 229-234: the next beam is sampled.              *)
(***************************************************************************)
\* the best score among the decks resampled from
MaxScore(pool) ==
    pool[CHOOSE i \in DOMAIN pool :
            \A j \in DOMAIN pool : pool[j].score <= pool[i].score].score

\* line 234: the temperature of the resampling step
ResampleTemp(temp) == DefaultTemp

Resample ==
    /\ pc = "expand"
    /\ UNCHANGED probe
    /\ bi > Len(beam)
    /\ LET ch == Choice(Len(new_beam), call.B, rng)
       IN IF ~ch.ok
          THEN /\ Raise("ValueError")
               /\ UNCHANGED <<beam, new_beam, current_card, bi, rng, draws,
                              temps, pool_best>>
          ELSE /\ beam' = sample_top_cards(
                            [k \in DOMAIN new_beam |-> new_beam[k].score],
                            [k \in DOMAIN new_beam |-> new_beam[k].deck],
                            ch.idx, FALSE)
               /\ rng' = ch.rng
               /\ draws' = Append(draws, ch.idx)
               /\ temps' = Append(temps, ResampleTemp(args.temp))
               /\ new_beam' = <<>>
               /\ pool_best' = MaxScore(new_beam)
               /\ current_card' = current_card + 1
               /\ bi' = 1
               /\ pc' = (IF current_card + 1 < max_deck_size
                         THEN "expand" ELSE "return")
               /\ UNCHANGED result
    /\ UNCHANGED <<args, combat_pages, run, depth, call, ci, cur_deck,
                   remaining, checkpoint, ret, outer_deck, search_calls, last,
                   max_invalid, prev>>

(***************************************************************************)
(* deck_beam_search, lines 236-244: the first element of the last beam, or *)
(* None when the beam yields nothing.                                      *)
(***************************************************************************)
\* the last deck of the beam in place of its first one
LastOf(b) == IF b # <<>> THEN DeckValue(b[Len(b)].deck) ELSE NoneValue

BestOf(b) == IF b # <<>> THEN DeckValue(b[1].deck) ELSE NoneValue

Return ==
    /\ pc = "return"
    /\ UNCHANGED probe
    /\ IF args.entry = "build_deck"
       THEN /\ ret' = BestOf(beam)
            /\ pc' = "post"
            /\ UNCHANGED result
       ELSE /\ result' = BestOf(beam)
            /\ pc' = "done"
            /\ UNCHANGED ret
    /\ beam' = <<>>
    /\ UNCHANGED <<args, combat_pages, run, depth, rng, call, new_beam,
                   current_card, bi, ci, cur_deck, remaining, checkpoint,
                   outer_deck, last, max_invalid, pool_best,
                   prev>>
    /\ UNCHANGED LogVars

(***************************************************************************)
(* build_deck, lines 380-393: the deck is returned, after the question     *)
(* whether to search again when it holds fewer than 3 stacks of the effect.*)
(***************************************************************************)
\* status_effects.get(effect, 4) < 3
AsksRetry(deck, effect) ==
    LET status_effects == count_deck_attribute_statistics(deck).status_effects
    IN (IF effect \in DOMAIN status_effects THEN status_effects[effect] ELSE 4) < 3

PostSearch ==
    /\ pc = "post"
    /\ UNCHANGED probe
    /\ IF ret.kind = "deck" /\ AsksRetry(ret.deck, call.effect)
       THEN /\ pc' = "prompt"
            /\ UNCHANGED result
       ELSE Finish(ret)
    /\ UNCHANGED <<args, combat_pages, run, depth, rng, call, ret, outer_deck,
                   prev>>
    /\ UNCHANGED SearchVars
    /\ UNCHANGED LogVars

Answer ==
    /\ pc = "prompt"
    /\ UNCHANGED probe
    /\ \E answer \in (IF depth < MaxRetry THEN {"y", "n"} ELSE {"n"}) :
          IF answer = "y"
          THEN /\ depth' = depth + 1
               /\ outer_deck' = (IF depth = 0 THEN ret.deck ELSE outer_deck)
               /\ pc' = "call"
               /\ UNCHANGED result
          ELSE /\ Finish(ret)
               /\ UNCHANGED <<depth, outer_deck>>
    /\ UNCHANGED <<args, combat_pages, run, rng, call, ret, prev>>
    /\ UNCHANGED SearchVars
    /\ UNCHANGED LogVars

(***************************************************************************)
(* The same call once more, in the same process: same arguments, same      *)
(* list, the generator where the first call left it.                       *)
(***************************************************************************)
Rerun ==
    /\ pc = "done"
    /\ UNCHANGED probe
    /\ run = 1
    /\ run' = 2
    /\ prev' = [result |-> result, draws |-> draws]
    /\ Start(args, combat_pages)
    /\ UNCHANGED <<args, combat_pages, rng>>

Next ==
    \/ BuildDeck
    \/ StartSearch
    \/ BeginElement
    \/ ExpandCard
    \/ EndElement
    \/ Resample
    \/ Return
    \/ PostSearch
    \/ Answer
    \/ Rerun

Spec == Init /\ [][Next]_vars

\* A call is under way, or the second one is still to come: the states in
\* which Next can take a step.
Running == pc # "done" \/ run = 1

\* The interpreter runs the call on: a step that can be taken is taken.  This
\* is the weak fairness of Next, WF_vars(Next), with ENABLED <<Next>>_vars
\* written out as Running.
LiveSpec == Spec /\ ([]<>(~Running) \/ []<><<Next>>_vars)

(***************************************************************************)
(* The functions applied on their own: one call of check_deck,             *)
(* count_deck_attribute_statistics, get_attack_defense_ratio,              *)
(* normalize_values or total_light_regen on a deck built from DeckCards,   *)
(* or on one of LoneCards alone.                                           *)
(***************************************************************************)
DeckInputs ==
    {PagesOf(ix, DeckCards) :
        ix \in UNION {[1..n -> DOMAIN DeckCards] : n \in 1..MaxDeckLen}}
    \cup {<<LoneCards[i]>> : i \in DOMAIN LoneCards}

FunctionInit ==
    /\ probe \in {[NoProbe EXCEPT !.fn = "input", !.deck = d] : d \in DeckInputs}
    /\ args = [entry |-> "function", may_keywords |-> <<>>,
               must_include |-> FALSE, flags |-> "short", B |-> 1,
               temp |-> MainTemp, effect |-> "no_effect", seed_given |-> FALSE,
               seed |-> 0]
    /\ combat_pages = AsObjects(DeckCards)
    /\ pc = "function"
    /\ rng = 0
    /\ run = 1
    /\ prev = [result |-> Pending, draws |-> <<>>]
    /\ depth = 0
    /\ call = [flags |-> "short", effect |-> "no_effect", B |-> 1,
               pool |-> AllIndices(combat_pages)]
    /\ beam = <<>>
    /\ new_beam = <<>>
    /\ current_card = 0
    /\ bi = 0
    /\ ci = 0
    /\ cur_deck = <<>>
    /\ remaining = <<>>
    /\ checkpoint = NewCheckpoint
    /\ ret = Pending
    /\ outer_deck = <<>>
    /\ result = Pending
    /\ draws = <<>>
    /\ temps = <<>>
    /\ search_calls = 0
    /\ last = NoLast
    /\ max_invalid = NegInf
    /\ pool_best = NegInf

\* the deck with the cards at positions i and i + 1 exchanged
Swap(deck, i) ==
    [k \in DOMAIN deck |->
        IF k = i /\ i + 1 \in DOMAIN deck THEN deck[i + 1]
        ELSE IF k = i + 1 /\ i \in DOMAIN deck THEN deck[i]
        ELSE deck[k]]

\* statistics['total_dice_types'] of a deck
DeckDiceTypes(deck) == count_deck_attribute_statistics(deck).total_dice_types

\* every dice-type count times factor
Scaled(attributes, factor) ==
    [t \in DOMAIN attributes |-> factor * attributes[t]]

\* check_deck(deck, flags) with the default scale
CallCheckDeck ==
    /\ probe.fn = "input"
    /\ \E mode \in {"short", "prolonged"} :
          probe' = [probe EXCEPT
                      !.fn = "check_deck", !.arg = mode,
                      !.out = check_deck(probe.deck, FlagsOf(mode), <<1, 1>>),
                      !.other = count_deck_attribute_statistics(probe.deck)]
    /\ UNCHANGED ProgramVars

\* count_deck_attribute_statistics on the deck and on the same cards with two
\* neighbours exchanged
CallStatistics ==
    /\ probe.fn = "input"
    /\ \E i \in 1..Max(1, Len(probe.deck) - 1) :
          probe' = [probe EXCEPT
                      !.fn = "count_deck_attribute_statistics", !.arg = i,
                      !.out = count_deck_attribute_statistics(probe.deck),
                      !.other = count_deck_attribute_statistics(
                                    Swap(probe.deck, i))]
    /\ UNCHANGED ProgramVars

\* get_attack_defense_ratio on the deck's dice-type counts and on factor
\* times them
CallRatio ==
    /\ probe.fn = "input"
    /\ \E factor \in 1..MaxFactor :
          probe' = [probe EXCEPT
                      !.fn = "get_attack_defense_ratio", !.arg = factor,
                      !.out = get_attack_defense_ratio(
                                  DeckDiceTypes(probe.deck)),
                      !.other = get_attack_defense_ratio(
                                    Scaled(DeckDiceTypes(probe.deck), factor))]
    /\ UNCHANGED ProgramVars

\* assign_score line 91: norm(0, 5) of the deck's count of the effect, and of
\* the count one higher
CallNormalize ==
    /\ probe.fn = "input"
    /\ \E effect \in {"strength", "charge"} :
          probe' = [probe EXCEPT
                      !.fn = "normalize_values",
                      !.arg = EffectCount(total_status_effects(probe.deck),
                                          effect),
                      !.out = normalize_values(0, 5,
                                  FP * EffectCount(
                                           total_status_effects(probe.deck),
                                           effect)),
                      !.other = normalize_values(0, 5,
                                    FP * (EffectCount(
                                              total_status_effects(probe.deck),
                                              effect) + 1))]
    /\ UNCHANGED ProgramVars

\* total_light_regen on one card
CallLightRegen ==
    /\ probe.fn = "input"
    /\ Len(probe.deck) = 1
    /\ probe' = [probe EXCEPT
                   !.fn = "total_light_regen",
                   !.out = total_light_regen(probe.deck[1])]
    /\ UNCHANGED ProgramVars

\* total_drawn_cards on one card
CallDrawnCards ==
    /\ probe.fn = "input"
    /\ Len(probe.deck) = 1
    /\ probe' = [probe EXCEPT
                   !.fn = "total_drawn_cards",
                   !.out = total_drawn_cards(probe.deck[1])]
    /\ UNCHANGED ProgramVars

FunctionNext ==
    \/ CallCheckDeck
    \/ CallStatistics
    \/ CallRatio
    \/ CallNormalize
    \/ CallLightRegen
    \/ CallDrawnCards

FunctionSpec == FunctionInit /\ [][FunctionNext]_vars

(***************************************************************************)
(* Properties.                                                             *)
(***************************************************************************)
\* The decks of the beam and of the pool of valid expansions.
BeamDecks == {beam[k].deck : k \in DOMAIN beam}

PoolDecks == {new_beam[k].deck : k \in DOMAIN new_beam}

\* What deck_beam_search returned, in either kind of call.
SearchReturn == IF args.entry = "build_deck" THEN ret ELSE result

\* The filtered candidate pool of the outermost build_deck call.
FilteredByBuild ==
    FilteredPool(AllIndices(combat_pages), combat_pages, args.may_keywords,
                 Lower(args.effect))

\* build_deck got past its argument checks and filtered the pool.
BuildFilters ==
    /\ args.entry = "build_deck"
    /\ EffectAccepted(Lower(args.effect))
    /\ ~args.must_include

CopiesOf(deck, nm) == Cardinality({k \in DOMAIN deck : deck[k].Name = nm})

\* The Card Limit of the caller's page of this name.
CatalogLimit(nm) ==
    LET i == CHOOSE j \in DOMAIN combat_pages : combat_pages[j].Name = nm
    IN combat_pages[i].Limit

HasSingletonText(page) == HasToken(Features[page.Name].text, "singleton")

\* C1: with a filtered pool of fewer than 9 cards build_deck returns None and
\* deck_beam_search is never entered.
C1_UndersizedPoolNoSearch ==
    (BuildFilters /\ Len(FilteredByBuild) < DeckSize)
        => /\ search_calls = 0
           /\ result.kind \in {"pending", "none"}

\* the search ended in a round whose pool of valid expansions was empty
SearchExhausted ==
    /\ pc = "done"
    /\ current_card >= 1
    /\ current_card < max_deck_size
    /\ bi > Len(beam)
    /\ new_beam = <<>>

\* C2: when the pool of valid expansions of a round is empty, the search
\* returns None; it raises nothing.
C2_ExhaustionReturnsNone ==
    (args.entry = "deck_beam_search" /\ SearchExhausted)
        => result.kind = "none"

\* C3: two runs of deck_beam_search with the same inputs and the same seed,
\* whatever integer it is, draw the same samples and return the same deck.
C3_SeededRunsAgree ==
    (/\ args.entry = "deck_beam_search"
     /\ args.seed_given
     /\ run = 2
     /\ pc = "done"
     /\ prev.result.kind = "deck")
        => /\ draws = prev.draws
           /\ result = prev.result

\* C4: a deck returned by deck_beam_search has exactly 9 cards and passes
\* check_deck under the requested mode at scale 1.
C4_ReturnedDeckValid ==
    SearchReturn.kind = "deck"
        => /\ Len(SearchReturn.deck) = 9
           /\ check_deck(SearchReturn.deck, FlagsOf(call.flags), <<1, 1>>).valid

C4_Witness ==
    /\ args.entry = "deck_beam_search"
    /\ pc = "done"
    /\ result.kind = "deck"
    /\ Len(result.deck) = max_deck_size
    /\ call.flags = "prolonged"

\* C5: in every deck of the beam, of the pool of valid expansions, and in the
\* returned deck, no card name occurs more often than the Card Limit of that
\* card in the candidate pool.
C5_CopiesWithinLimit ==
    \A deck \in BeamDecks \cup PoolDecks \cup {SearchReturn.deck} :
        \A k \in DOMAIN deck :
            CopiesOf(deck, deck[k].Name) <= CatalogLimit(deck[k].Name)

C5_Witness ==
    /\ pc = "inner"
    /\ \E k \in DOMAIN cur_deck :
          /\ CopiesOf(cur_deck, cur_deck[k].Name) = CatalogLimit(cur_deck[k].Name)
          /\ CatalogLimit(cur_deck[k].Name) > 1
          /\ \A j \in DOMAIN remaining :
                combat_pages[remaining[j]].Name # cur_deck[k].Name

\* C6: once a card whose text contains "singleton" is in a partial deck, no
\* expansion of that deck adds a second copy of it.
C6_SingletonNotRepeated ==
    last.deck # <<>>
        => ~ /\ HasSingletonText(combat_pages[last.card])
             /\ CopiesOf(last.parent, combat_pages[last.card].Name) >= 1

\* C7: the Card Limit of every page of the caller's list stays what it was,
\* every page of a deck of the beam or of the pool is a copy of its own, and
\* a deck without a singleton card holds no page whose limit was adjusted.
C7_BranchIsolation ==
    /\ \E c \in Catalogs : combat_pages = AsObjects(c)
    /\ \A deck \in BeamDecks \cup PoolDecks \cup {cur_deck} :
          \A k \in DOMAIN deck :
             /\ deck[k].obj = 0
             /\ ~is_singleton(deck) => deck[k].Limit = CatalogLimit(deck[k].Name)

C7_Witness ==
    /\ \E deck \in PoolDecks :
          \E k \in DOMAIN deck :
             deck[k].Limit = 1 /\ CatalogLimit(deck[k].Name) = 3
    /\ \E deck \in PoolDecks :
          \A k \in DOMAIN deck : deck[k].Limit = CatalogLimit(deck[k].Name)

\* The checkpoint is the best-scoring invalid expansion of the search so far
\* with that deck's own reason, and every deck of the pool is valid.
C8_CheckpointState ==
    /\ checkpoint.best_score = max_invalid
    /\ checkpoint.best_score # NegInf
         => LET deck == checkpoint.best_deck
                chk == check_deck(deck, FlagsOf(call.flags),
                                  <<Len(deck), DeckSize>>)
            IN /\ ~chk.valid
               /\ checkpoint.reason_failed = chk.reason
               /\ checkpoint.best_score = assign_score(deck, call.effect)
    /\ \A deck \in PoolDecks :
          check_deck(deck, FlagsOf(call.flags), <<Len(deck), DeckSize>>).valid

\* The checkpoint changes only to a new one when a search or a call starts,
\* or to the invalid expansion just made when it scores strictly higher;
\* that expansion does not enter the pool.
C8_CheckpointStep ==
    checkpoint' # checkpoint
        => \/ pc \in {"search", "done"} /\ checkpoint' = NewCheckpoint
           \/ /\ checkpoint'.best_score > checkpoint.best_score
              /\ ~last'.valid
              /\ checkpoint'.best_deck = last'.deck
              /\ checkpoint'.reason_failed = last'.reason
              /\ new_beam' = new_beam

\* C8: the checkpoint holds the best-scoring invalid expansion of the search
\* so far with that deck's own reason; best_score never decreases within a
\* search, it is replaced only by an invalid expansion of strictly higher
\* score, never by a valid deck; no invalid expansion enters the pool of
\* valid expansions.
C8_Checkpoint == [](C8_CheckpointState) /\ [][C8_CheckpointStep]_vars

C8_Witness ==
    /\ new_beam # <<>>
    /\ last.deck # <<>>
    /\ ~last.valid
    /\ last.score < checkpoint.best_score
    /\ Len(checkpoint.best_deck) < Len(last.deck)

\* lines 343-344: no flags means a prolonged battle
RequestedFlags == IF args.flags = "none" THEN "prolonged" ELSE args.flags

\* C9: with a filtered pool of exactly 9 cards build_deck makes no search and
\* returns those 9 cards if they pass check_deck at scale 1 under the
\* requested mode, None otherwise.
C9_ExactNineNoSearch ==
    (BuildFilters /\ Len(FilteredByBuild) = DeckSize)
        => /\ search_calls = 0
           /\ pc = "done"
                => result =
                     IF check_deck(PagesOf(FilteredByBuild, combat_pages),
                                   FlagsOf(RequestedFlags), <<1, 1>>).valid
                     THEN DeckValue(PagesOf(FilteredByBuild, combat_pages))
                     ELSE NoneValue

C9_Witness ==
    /\ BuildFilters
    /\ Len(FilteredByBuild) = DeckSize
    /\ pc = "done"
    /\ result.kind = "deck"
    /\ Len(result.deck) = DeckSize

\* total_light_regen / (n/9) >= 6.38 * cost_sum / n - 6.88 and
\* total_drawn_cards / (n/9) >= 4, cleared of denominators
ProlongedValid(deck) ==
    LET stats == count_deck_attribute_statistics(deck)
        n == Len(deck)
    IN /\ 900 * stats.total_light_regen >= 638 * stats.cost_sum - 688 * n
       /\ 9 * stats.total_drawn_cards >= 4 * n

\* C10: in prolonged mode check_deck accepts a deck of n cards at scale n/9
\* exactly when total_light_regen / scale >= 6.38 * average_cost - 6.88 and
\* total_drawn_cards / scale >= 4.
C10_ProlongedVerdict ==
    /\ (last.deck # <<>> /\ call.flags = "prolonged")
          => (last.valid <=> ProlongedValid(last.deck))
    /\ (/\ BuildFilters
        /\ Len(FilteredByBuild) = DeckSize
        /\ RequestedFlags = "prolonged"
        /\ pc = "done")
          => (result.kind = "deck"
                <=> ProlongedValid(PagesOf(FilteredByBuild, combat_pages)))

C10_Witness ==
    /\ call.flags = "prolonged"
    /\ last.deck # <<>>
    /\ last.valid
    /\ Len(last.deck) < DeckSize
    /\ count_deck_attribute_statistics(last.deck).total_drawn_cards < 4
    /\ count_deck_attribute_statistics(last.deck).total_light_regen
         < 6 * count_deck_attribute_statistics(last.deck).cost_sum


(***************************************************************************)
(* The short-battle rule of check_deck.                                    *)
(***************************************************************************)
\* the mean of dice per card, the weighted mean and the ratio of attack to
\* defence dice against 2.6, 2.3 and 5, as exact fractions of the deck's sums
ShortRule(a) ==
    /\ 10 * a.total_dice_counts >= 26 * a.number_of_cards
    /\ 10 * a.weighted_dice_sum >= 23 * a.number_of_cards * (a.max_cost + 1)
    /\ \/ SumOver(DefenseTypes, a.total_dice_types) = 0
       \/ SumOver(AttackTypes, a.total_dice_types)
            >= 5 * SumOver(DefenseTypes, a.total_dice_types)

\* C11: in short mode check_deck holds a deck valid exactly when its mean of
\* dice per card is at least 2.6, its weighted mean of dice per card is at
\* least 2.3 and its attack dice are at least 5 times its defence dice (or it
\* has no defence dice).
C11_ShortRule ==
    (probe.fn = "check_deck" /\ probe.arg = "short")
        => (probe.out.valid <=> ShortRule(probe.other))

(***************************************************************************)
(* The weights of a deck whose cards share one cost.                       *)
(***************************************************************************)
SameCost(deck) == \A i, j \in DOMAIN deck : deck[i].Cost = deck[j].Cost

\* C12: when every card of the deck has the same cost, every weight is 1 and
\* weighted_average_dice_per_card equals average_dice_per_card
\* (weighted_dice_sum / (max_cost + 1) equals total_dice_counts).
C12_SameCostWeights ==
    (probe.fn = "count_deck_attribute_statistics" /\ SameCost(probe.deck))
        => probe.out.weighted_dice_sum
             = probe.out.total_dice_counts * (probe.out.max_cost + 1)

(***************************************************************************)
(* The shape of normalize_values(0, 5) on the counts of a status effect.   *)
(***************************************************************************)
\* k = 0.99 * (1 / (max_val - min_val) + 1), in fixed point
CeilingOf(min_val, max_val) ==
    (99 * (max_val - min_val + 1) * FP) \div (100 * (max_val - min_val))

\* C13: normalize_values(lo, hi) is non-decreasing over every count it is
\* given, negative counts below lo included, it is 0 at lo, and it never
\* exceeds k.
C13_NormalizeShape ==
    probe.fn = "normalize_values"
        => /\ probe.out <= probe.other
           /\ probe.out <= CeilingOf(0, 5)
           /\ (probe.arg = 0 => probe.out = 0)

(***************************************************************************)
(* build_deck with the effect value of the command line's help text.       *)
(***************************************************************************)
\* C14: build_deck called with effect "no_effects" accepts the value: the call
\* does not end with the ValueError of the effect validation.
C14_NoEffectsAccepted ==
    (args.entry = "build_deck" /\ args.effect = "no_effects" /\ pc = "done")
        => result # Raised("ValueError")

(***************************************************************************)
(* build_deck with must_include given.                                     *)
(***************************************************************************)
\* C17: build_deck called with a non-empty must_include (and a valid effect)
\* restricts the pool to the pages holding the keywords and goes on to build:
\* the call ends with a deck or with None, not with an exception.
C17_MustIncludeBuilds ==
    (/\ args.entry = "build_deck"
     /\ args.must_include
     /\ EffectAccepted(Lower(args.effect))
     /\ pc = "done")
        => result.kind \in {"deck", "none"}

(***************************************************************************)
(* The temperature of the sampling steps.                                  *)
(***************************************************************************)
\* C18: every sampling step of a search, the first one and each resample of
\* the beam, uses the temperature the search was called with.
C18_TemperatureEverywhere ==
    \A i \in DOMAIN temps : temps[i] = args.temp

(***************************************************************************)
(* The statistics of the same cards in another order.                      *)
(***************************************************************************)
\* C15: two decks holding the same cards in different orders get identical
\* statistics from count_deck_attribute_statistics, status_effects included.
C15_OrderIndependent ==
    probe.fn = "count_deck_attribute_statistics" => probe.out = probe.other

(***************************************************************************)
(* The ratio of attack to defence dice under a common factor.              *)
(***************************************************************************)
\* C16: get_attack_defense_ratio returns the same value, +inf included, when
\* every dice-type count is multiplied by the same positive integer.
C16_RatioScaleInvariant ==
    probe.fn = "get_attack_defense_ratio" => probe.out = probe.other

\* a finite ratio that is not a whole number, compared under a factor above 1
C16_Witness ==
    /\ probe.fn = "get_attack_defense_ratio"
    /\ probe.arg >= 2
    /\ ~probe.out.inf
    /\ probe.out.hundredths % 100 # 0
    /\ probe.other = probe.out

(***************************************************************************)
(* The reason check_deck gives for a short-mode failure.                   *)
(***************************************************************************)
\* C19: a deck that in short mode fails only weighted_average_dice_per_card
\* >= 2.3 (its average dice per card and its ratio pass) is held invalid with
\* a reason that carries the measured weighted average.
C19_ReasonOfWeighted ==
    (/\ probe.fn = "check_deck"
     /\ probe.arg = "short"
     /\ 10 * probe.other.total_dice_counts >= 26 * probe.other.number_of_cards
     /\ ~probe.other.average_dice_sum_below
     /\ is_attack_focused(probe.other)
     /\ 10 * probe.other.weighted_dice_sum
          < 23 * probe.other.number_of_cards * (probe.other.max_cost + 1))
        => /\ ~probe.out.valid
           /\ probe.out.reason.value[1] * probe.other.number_of_cards
                  * (probe.other.max_cost + 1)
                = probe.other.weighted_dice_sum * probe.out.reason.value[2]

(***************************************************************************)
(* The light a card restores.                                              *)
(***************************************************************************)
\* the N of every "restore N light" of a text
EveryLightOfText(text) ==
    SumOver(LightMatches(text), [i \in LightMatches(text) |-> IntOf(text[i + 1])])

\* C20: total_light_regen(card) is the sum of N over every occurrence of
\* "restore N light" in the card's Effect and in each dice descriptor, every
\* occurrence within one field counted; 0 when there is none.
C20_EveryOccurrence ==
    probe.fn = "total_light_regen"
        => probe.out
             = EveryLightOfText(LowerAll(probe.deck[1].Effect))
               + SumSeq([k \in DOMAIN probe.deck[1].Dices |->
                           EveryLightOfText(
                               LowerAll(DescText(probe.deck[1].Dices[k])))])

(***************************************************************************)
(* The pages a card draws.                                                 *)
(***************************************************************************)
\* every draw match of a text less every discard match of it
EveryDrawOfText(text) ==
    SumOver(DrawMatches(text),
            [i \in DrawMatches(text) |->
                IF text[i + 1] = "a" THEN 1 ELSE IntOf(text[i + 1])])
    - SumOver(DiscardMatches(text),
              [i \in DiscardMatches(text) |-> DiscardAt(text, i)])

\* C21: total_drawn_cards(card) is the sum over every draw match (1 for "a",
\* N for a number) less the sum over every discard match, less 1 when the
\* Effect holds "single-use", the Effect and each dice descriptor scanned on
\* their own and every match within a field counted.
C21_EveryDrawMatch ==
    probe.fn = "total_drawn_cards"
        => probe.out
             = EveryDrawOfText(LowerAll(probe.deck[1].Effect))
               + SumSeq([k \in DOMAIN probe.deck[1].Dices |->
                           EveryDrawOfText(
                               LowerAll(DescText(probe.deck[1].Dices[k])))])
               - (IF HasToken(LowerAll(probe.deck[1].Effect), "single-use")
                  THEN 1 ELSE 0)

(***************************************************************************)
(* A candidate whose dice do not parse.                                    *)
(***************************************************************************)
\* C22: when a candidate card has a die without a <min>~<max> range or with
\* an unrecognized type, deck_beam_search raises: it samples nothing, never
\* returns a deck or None, and ends with the ValueError.
C22_ParseFailureFatal ==
    (/\ args.entry = "deck_beam_search"
     /\ \E k \in DOMAIN combat_pages : ~CardParses(combat_pages[k]))
        => /\ draws = <<>>
           /\ result.kind \in {"pending", "raise"}
           /\ (pc = "done" => result = Raised("ValueError"))

\* a search over a list with such a card that has ended
C22_Witness ==
    /\ args.entry = "deck_beam_search"
    /\ \E k \in DOMAIN combat_pages : ~CardParses(combat_pages[k])
    /\ search_calls = 1
    /\ pc = "done"
    /\ result = Raised("ValueError")

(***************************************************************************)
(* The work of one search.                                                 *)
(***************************************************************************)
\* within a search: one of the rounds for cards 2..9, on at most B beam
\* elements, each tried with at most the whole pool
RoundsBounded ==
    pc \in {"expand", "inner"}
        => /\ current_card \in 1..(DeckSize - 1)
           /\ Len(beam) <= call.B
           /\ bi \in 1..(Len(beam) + 1)
           /\ Len(new_beam) <= call.B * Len(call.pool)
           /\ (pc = "inner"
                 => /\ Len(remaining) <= Len(call.pool)
                    /\ ci \in 1..(Len(remaining) + 1))

\* C23: deck_beam_search always terminates: it runs at most 8 expansion
\* rounds, each over at most B beam elements times the pool, and every search
\* that starts comes to its end with a deck or a failure.
C23_SearchTerminates ==
    /\ []RoundsBounded
    /\ (pc = "search") ~> (pc \in {"post", "done"})

\* the eighth round is over and the search is about to return
C23_Witness ==
    /\ pc = "return"
    /\ current_card = DeckSize
    /\ Len(temps) >= DeckSize - 1

(***************************************************************************)
(* The deck a search returns.                                              *)
(***************************************************************************)
\* the step that returns from the search hands over the deck of the first
\* element of the beam
C24_ReturnStep ==
    (pc = "return" /\ pc' # "return")
        => (IF args.entry = "build_deck" THEN ret' ELSE result')
             = (IF beam = <<>> THEN NoneValue ELSE DeckValue(beam[1].deck))

\* C24: the deck deck_beam_search returns is the first element of the last
\* resampled beam, whether or not another element of that beam scores higher.
C24_FirstOfBeam == [][C24_ReturnStep]_vars

\* a search about to return the first deck of its beam, while a deck of the
\* final pool of valid nine-card expansions scores higher
C24_Witness ==
    /\ pc = "return"
    /\ beam # <<>>
    /\ Len(beam[1].deck) = max_deck_size
    /\ pool_best > beam[1].score

(***************************************************************************)
(* The beam of an expansion round.                                         *)
(***************************************************************************)
\* the positions the latest sample drew: B of them, no two the same
DrawnApart(idx, B) ==
    /\ Len(idx) = B
    /\ \A i, j \in DOMAIN idx : i # j => idx[i] # idx[j]

\* C25: in the expansion round that looks for card k + 1 (k = 1..8) the beam
\* holds exactly B tuples, drawn from B pairwise distinct positions of the
\* previous pool; each deck has exactly k cards and each tuple's counter holds
\* the number of cards of each name in its deck.
C25_BeamShape ==
    pc \in {"expand", "inner"}
        => /\ current_card \in 1..(DeckSize - 1)
           /\ Len(beam) = call.B
           /\ draws # <<>>
           /\ DrawnApart(draws[Len(draws)], call.B)
           /\ \A i \in DOMAIN beam :
                /\ Len(beam[i].deck) = current_card
                /\ \A p \in AllPages :
                     CounterGet(beam[i].counter, p.Name)
                       = Cardinality({k \in DOMAIN beam[i].deck :
                                         beam[i].deck[k].Name = p.Name})

\* the round for the ninth card starts on two decks, one of which holds a
\* card more than once
C25_Witness ==
    /\ pc = "expand"
    /\ bi = 1
    /\ current_card = DeckSize - 1
    /\ Len(beam) = 2
    /\ \E i \in DOMAIN beam :
          \E nm \in DOMAIN beam[i].counter : beam[i].counter[nm] >= 2

(***************************************************************************)
(* The effect names build_deck accepts.                                    *)
(***************************************************************************)
\* C26: build_deck accepts, without ValueError, each of the 19 names of its
\* valid_status_effects list, in whatever letter case the name is written.
C26_ListedEffectsAccepted ==
    (/\ args.entry = "build_deck"
     /\ \E e \in StatusEffects : Lower(args.effect) = Lower(e)
     /\ pc = "done")
        => result # Raised("ValueError")
====
